---- MODULE Spec2Model ----
(***************************************************************************)
(* Model of sync_dayscedule.py: one run of run_sync (load the Snapshot,    *)
(* list the bookings, reconcile them batch by batch with one asyncio task  *)
(* per summary behind a semaphore, group the results, save the Snapshot),  *)
(* repeated over a bounded number of runs; the host loop of                *)
(* scheduled_sync; and the record normalizer on its own.                   *)
(*                                                                         *)
(* Python values: a str is a sequence of one-character strings where the   *)
(* code looks inside it (booking_url, store_name) and a TLA+ string where  *)
(* it is only lower-cased and compared (status).  None and "key absent     *)
(* from the dict" are distinct sentinels of the same shape.                *)
(***************************************************************************)
EXTENDS Integers, Sequences, FiniteSets, TLC

\* ------------------------------------------------------------------------
\* Bounds of the model
\* ------------------------------------------------------------------------
\* booking ids are 1..MaxId
MaxId == 2
\* longest listing the API returns in the reconciliation specification
MaxListing == 2
\* number of runs of run_sync in one behaviour
MaxRuns == 2
\* longest listing in the admission-gate specification
MaxGateListing == 7
\* longest store slug of a booking_url in the normalizer specification
MaxSlug == 2
\* polls of the host loop between two scheduled runs (the interval, in
\* units of the loop's sleep)
Interval == 2
\* The source processes batches of min(50, len) summaries (line 283).  The
\* model scales the 50 down so that a listing within the bounds overflows
\* one batch; the batch loop is uniform in this number.
BatchCap == 6

\* ------------------------------------------------------------------------
\* Configuration (lines 14-19)
\* ------------------------------------------------------------------------
MAX_CONCURRENT_REQUESTS == 5

\* ------------------------------------------------------------------------
\* Python values
\* ------------------------------------------------------------------------
\* None where a status string is expected
PyNone == "<None>"
\* None where a character sequence (booking_url, store_name) is expected
NoneStr == <<"<None>">>
\* the key is not in the dict
KeyAbsent == <<"<absent>">>
\* None where a raw detail (a dict) is expected
NoDetail == [none |-> TRUE]
\* a task that returned None
NoResult == [type |-> "none"]
\* existing_booking_map = None
NoMap == [none |-> TRUE, entries |-> <<>>]

Min(a, b) == IF a < b THEN a ELSE b

\* str.lower() on the status strings of the model
Lower(s) ==
    CASE s = "Confirmed" -> "confirmed"
      [] s = "Pending" -> "pending"
      [] s = "Canceled" -> "canceled"
      [] s = "Weird_State" -> "weird_state"
      [] OTHER -> s

\* ------------------------------------------------------------------------
\* BookingProcessor.extract_store_name (lines 69-96)
\* ------------------------------------------------------------------------
HOST1 == <<"h","t","t","p","s",":","/","/","s","e","c","t","i","o","n","2","1",".","d","a","y","s","c","h","e","d","u","l","e",".","c","o","m","/">>
SUFFIX1 == <<"-","d","r","-","m","-","t","u","p","y","-","c","o","n","s","u","l","t","a","t","i","o","n">>
HOST2 == <<"h","t","t","p","s",":","/","/","s","e","c","t","i","o","n","2","1","b","o","o","k","i","n","g","s",".","d","a","y","s","c","h","e","d","u","l","e",".","c","o","m","/">>
SUFFIX2 == <<"-","d","r","-","c","o","n","s","u","l","t","a","t","i","o","n","-","1">>

\* the pattern list of lines 81-86: a literal prefix, a lazy group of
\* non-slash characters, then the literal suffix or the end of the string
patterns == << [prefix |-> HOST1, suffix |-> SUFFIX1],
               [prefix |-> HOST2, suffix |-> SUFFIX2] >>

\* s has the literal lit at position at (1-based)
HasAt(s, lit, at) ==
    /\ at + Len(lit) - 1 <= Len(s)
    /\ \A k \in 1..Len(lit) : s[at + k - 1] = lit[k]

GreedyGroup(s, from, suffix) ==
    LET ends == { e \in from..Len(s) :
                    /\ \A k \in from..e : s[k] # "/"
                    /\ (HasAt(s, suffix, e + 1) \/ e = Len(s)) }
    IN IF ends = {} THEN <<>>
       ELSE SubSeq(s, from, CHOOSE e \in ends : \A f \in ends : e >= f)

\* the group ([^/]+?) of a pattern whose prefix ends right before position
\* from: the shortest non-empty run of non-slash characters that is followed
\* by the suffix or by the end of the string; <<>> when there is none
LazyGroup(s, from, suffix) ==
    LET ends == { e \in from..Len(s) :
                    /\ \A k \in from..e : s[k] # "/"
                    /\ (HasAt(s, suffix, e + 1) \/ e = Len(s)) }
    IN IF ends = {} THEN <<>>
       ELSE SubSeq(s, from, CHOOSE e \in ends : \A f \in ends : e <= f)

\* re.search(pattern, s): the match at the leftmost start position that has
\* one; its group(1), or <<>> when the pattern matches nowhere
ReSearch(p, s) ==
    LET starts == { b \in 1..Len(s) :
                      /\ HasAt(s, p.prefix, b)
                      /\ LazyGroup(s, b + Len(p.prefix), p.suffix) # <<>> }
    IN IF starts = {} THEN <<>>
       ELSE LET b == CHOOSE x \in starts : \A y \in starts : x <= y
            IN LazyGroup(s, b + Len(p.prefix), p.suffix)

LowerLetters == <<"a","b","c","d","e","f","g","h","i","j","k","l","m","n","o","p","q","r","s","t","u","v","w","x","y","z">>
UpperLetters == <<"A","B","C","D","E","F","G","H","I","J","K","L","M","N","O","P","Q","R","S","T","U","V","W","X","Y","Z">>

IsCased(c) == \E k \in 1..26 : c = LowerLetters[k] \/ c = UpperLetters[k]
UpperChar(c) ==
    IF \E k \in 1..26 : c = LowerLetters[k]
    THEN UpperLetters[CHOOSE k \in 1..26 : c = LowerLetters[k]] ELSE c
LowerChar(c) ==
    IF \E k \in 1..26 : c = UpperLetters[k]
    THEN LowerLetters[CHOOSE k \in 1..26 : c = UpperLetters[k]] ELSE c

\* str.replace('-', ' ')
ReplaceHyphens(s) == [k \in 1..Len(s) |-> IF s[k] = "-" THEN " " ELSE s[k]]

\* str.title(): a cased character is upper-cased after an uncased one (or at
\* the start) and lower-cased after a cased one
Title(s) ==
    [k \in 1..Len(s) |->
        IF k = 1 \/ ~IsCased(s[k - 1]) THEN UpperChar(s[k]) ELSE LowerChar(s[k])]

\* "not booking_url": None and the empty string are falsy
Falsy(s) == s = NoneStr \/ s = <<>>

extract_store_name(booking_url) ==
    IF Falsy(booking_url) THEN NoneStr
    ELSE LET hits == { n \in 1..Len(patterns) : ReSearch(patterns[n], booking_url) # <<>> }
         IN IF hits = {} THEN NoneStr
            ELSE LET n == CHOOSE x \in hits : \A y \in hits : x <= y
                 IN Title(ReplaceHyphens(ReSearch(patterns[n], booking_url)))

\* ------------------------------------------------------------------------
\* BookingProcessor.clean_booking_data (lines 99-131)
\* ------------------------------------------------------------------------
\* The "invitees" of a raw detail are [present, list]: whether the key is
\* there, and the list under it.  An invitee is [email, phone, questions],
\* questions a list of [label, value]; texts are sequences of characters and
\* NoneStr stands for None or a missing key.
NoInvitees == [present |-> FALSE, list |-> <<>>]
InviteeList(list) == [present |-> TRUE, list |-> list]

\* the {} of the default [{}]
EmptyInvitee == [email |-> NoneStr, phone |-> NoneStr, questions |-> <<>>]

\* raw.get("invitees", [{}])[0] raises IndexError on an empty list (line 101)
IndexError(raw) == raw.invitees.present /\ raw.invitees.list = <<>>

FirstInvitee(raw) ==
    IF raw.invitees.present THEN raw.invitees.list[1] ELSE EmptyInvitee

\* {q["label"]: q["value"] for q in ...}.get(label, default): of two
\* questions with one label the later is kept
QuestionsGet(questions, label, default) ==
    LET at == { k \in 1..Len(questions) : questions[k].label = label }
    IN IF at = {} THEN default
       ELSE questions[CHOOSE k \in at : \A j \in at : j <= k].value

\* str.strip()
RECURSIVE LStrip(_)
LStrip(s) ==
    IF s # <<>> /\ Head(s) = " " THEN LStrip(Tail(s)) ELSE s

RECURSIVE RStrip(_)
RStrip(s) ==
    IF s # <<>> /\ s[Len(s)] = " " THEN RStrip(SubSeq(s, 1, Len(s) - 1)) ELSE s

Strip(s) == RStrip(LStrip(s))

\* the "patient" of the record (lines 121-129)
Patient(invitee) ==
    LET q == invitee.questions
    IN [ full_name     |-> Strip(QuestionsGet(q, "Name", <<>>) \o <<" ">>
                                 \o QuestionsGet(q, "Surname", <<>>)),
         email         |-> QuestionsGet(q, "Your email address", invitee.email),
         phone         |-> QuestionsGet(q, "Mobile number", invitee.phone),
         date_of_birth |-> QuestionsGet(q, "Date of Birth", NoneStr),
         gender        |-> QuestionsGet(q, "Gender", NoneStr),
         height        |-> QuestionsGet(q, "Height", NoneStr),
         weight        |-> QuestionsGet(q, "Weight", NoneStr) ]

UrlAlwaysKept(raw) ==
    LET store_name == extract_store_name(raw.booking_url)
    IN [ booking_id  |-> raw.booking_id,
         store_name  |-> IF ~Falsy(store_name) THEN store_name ELSE KeyAbsent,
         booking_url |-> raw.booking_url,
         status      |-> raw.status,
         patient     |-> Patient(FirstInvitee(raw)) ]

\* the record returned for a raw detail on which line 101 does not raise
clean_booking_data(raw) ==
    LET store_name == extract_store_name(raw.booking_url)
    IN [ booking_id  |-> raw.booking_id,
         store_name  |-> IF ~Falsy(store_name) THEN store_name ELSE KeyAbsent,
         booking_url |-> IF ~Falsy(store_name) THEN KeyAbsent ELSE raw.booking_url,
         status      |-> raw.status,
         patient     |-> Patient(FirstInvitee(raw)) ]

\* ------------------------------------------------------------------------
\* The Snapshot and load_existing_data (lines 133-154)
\* ------------------------------------------------------------------------
\* last_updated: 0 stands for None, n > 0 for the time of the n-th run
EmptySnapshot ==
    [last_updated |-> 0, confirmed |-> <<>>, pending |-> <<>>,
     canceled |-> <<>>, other |-> <<>>]

\* the file OUTPUT_FILE: absent, a complete document, or a truncated one
AbsentFile == [state |-> "absent", data |-> EmptySnapshot]
ValidFile(data) == [state |-> "valid", data |-> data]
TruncatedFile == [state |-> "truncated", data |-> EmptySnapshot]

\* how the call ends for a file that can or cannot be read: the file is not
\* there (line 135), open or read raises (line 153), the document does not
\* decode (line 150), or it is loaded
LoadOutcome(f, readable) ==
    IF f.state = "absent" THEN "absent"
    ELSE IF ~readable THEN "read_error"
    ELSE IF f.state = "truncated" THEN "decode_error"
    ELSE "loaded"

LoadWhateverIsThere(f, readable) == f.data

load_existing_data(f, readable) ==
    IF LoadOutcome(f, readable) = "loaded" THEN f.data ELSE EmptySnapshot

\* ------------------------------------------------------------------------
\* create_booking_map (lines 156-168)
\* ------------------------------------------------------------------------
\* the (group, booking) pairs in the order the two loops visit them
MapEntries(data) ==
    LET E(g) == [k \in 1..Len(data[g]) |-> [status |-> g, data |-> data[g][k]]]
    IN E("confirmed") \o E("pending") \o E("canceled") \o E("other")

\* a later assignment to the same key overwrites an earlier one
create_booking_map(data) ==
    LET es == MapEntries(data)
        ids == { es[k].data.booking_id : k \in 1..Len(es) }
        last(id) == CHOOSE k \in 1..Len(es) :
                      /\ es[k].data.booking_id = id
                      /\ \A j \in 1..Len(es) : es[j].data.booking_id = id => j <= k
    IN [none |-> FALSE,
        entries |-> [id \in ids |->
                       [status |-> es[last(id)].status, data |-> es[last(id)].data]]]

\* "existing_booking_map and booking_id in existing_booking_map": None and
\* the empty dict are falsy
InMap(map, booking_id) ==
    /\ ~map.none
    /\ booking_id \in DOMAIN map.entries

\* ------------------------------------------------------------------------
\* process_booking_batch.fetch_with_semaphore: the reuse test (lines 181-194)
\* ------------------------------------------------------------------------
ForceIgnored(booking, map, force_process) ==
    /\ InMap(map, booking.booking_id)
    /\ map.entries[booking.booking_id].status = Lower(booking.status)
    /\ map.entries[booking.booking_id].data.store_name # KeyAbsent

ReuseExisting(booking, map, force_process) ==
    /\ ~force_process
    /\ InMap(map, booking.booking_id)
    /\ map.entries[booking.booking_id].status = Lower(booking.status)
    /\ map.entries[booking.booking_id].data.store_name # KeyAbsent

\* ------------------------------------------------------------------------
\* DayScheduleClient.fetch_booking_detail (lines 51-64): the value returned
\* for a response [exc, status, json]
\* ------------------------------------------------------------------------
ErrorBodyReturned(resp) ==
    IF resp.exc THEN NoDetail ELSE resp.json

fetch_booking_detail(resp) ==
    IF resp.exc THEN NoDetail
    ELSE IF resp.status = 200 THEN resp.json ELSE NoDetail

\* ------------------------------------------------------------------------
\* DayScheduleClient.fetch_all_bookings (lines 39-49): [raised, value] for a
\* response [exc, status, result]
\* ------------------------------------------------------------------------
ListingStatusIgnored(resp) ==
    IF resp.exc THEN [raised |-> TRUE, value |-> <<>>]
    ELSE [raised |-> FALSE, value |-> resp.result]

fetch_all_bookings(resp) ==
    IF resp.exc \/ resp.status # 200 THEN [raised |-> TRUE, value |-> <<>>]
    ELSE [raised |-> FALSE, value |-> resp.result]

\* ------------------------------------------------------------------------
\* asyncio.Semaphore as used at line 200
\* ------------------------------------------------------------------------
NeverLocked(value) == FALSE

locked(value) == value = 0

\* ------------------------------------------------------------------------
\* process_booking_batch: assembling the results (lines 225-236)
\* ------------------------------------------------------------------------
\* clean_booking_data raises on one of the gathered results (line 233)
CleanRaises(gathered) ==
    \E k \in 1..Len(gathered) :
        /\ gathered[k] # NoResult
        /\ gathered[k].type # "existing"
        /\ IndexError(gathered[k].data)

RECURSIVE LastFirst(_)
LastFirst(details) ==
    IF details = <<>> THEN <<>>
    ELSE LET d == Head(details)
             rest == LastFirst(Tail(details))
         IN IF d = NoResult THEN rest
            ELSE IF d.type = "existing" THEN rest \o <<d.data>>
            ELSE rest \o <<clean_booking_data(d.data)>>

RECURSIVE FetchedOnly(_)
FetchedOnly(details) ==
    IF details = <<>> THEN <<>>
    ELSE LET d == Head(details)
             rest == FetchedOnly(Tail(details))
         IN IF d = NoResult \/ d.type = "existing" THEN rest
            ELSE <<clean_booking_data(d.data)>> \o rest

\* the results of the gathered tasks, in task order, None results dropped
RECURSIVE BatchResults(_)
BatchResults(details) ==
    IF details = <<>> THEN <<>>
    ELSE LET d == Head(details)
             rest == BatchResults(Tail(details))
         IN IF d = NoResult THEN rest
            ELSE IF d.type = "existing" THEN <<d.data>> \o rest
            ELSE <<clean_booking_data(d.data)>> \o rest

\* ------------------------------------------------------------------------
\* process_bookings: grouping the results of a batch (lines 298-304)
\* ------------------------------------------------------------------------
PrependOne(grouped, result) ==
    IF result.status = PyNone THEN [raised |-> TRUE, grouped |-> grouped]
    ELSE LET status == Lower(result.status)
         IN IF status = "last_updated" THEN [raised |-> TRUE, grouped |-> grouped]
            ELSE IF status \in {"confirmed", "pending", "canceled", "other"}
                 THEN [raised |-> FALSE,
                       grouped |-> [grouped EXCEPT ![status] = <<result>> \o @]]
                 ELSE [raised |-> FALSE,
                       grouped |-> [grouped EXCEPT !.other = <<result>> \o @]]

\* one iteration of the loop: [raised, grouped].  None has no lower(); the
\* value under "last_updated" is a str and has no append()
GroupOne(grouped, result) ==
    IF result.status = PyNone THEN [raised |-> TRUE, grouped |-> grouped]
    ELSE LET status == Lower(result.status)
         IN IF status = "last_updated" THEN [raised |-> TRUE, grouped |-> grouped]
            ELSE IF status \in {"confirmed", "pending", "canceled", "other"}
                 THEN [raised |-> FALSE,
                       grouped |-> [grouped EXCEPT ![status] = Append(@, result)]]
                 ELSE [raised |-> FALSE,
                       grouped |-> [grouped EXCEPT !.other = Append(@, result)]]

RECURSIVE GroupResults(_, _)
GroupResults(grouped, results) ==
    IF results = <<>> THEN [raised |-> FALSE, grouped |-> grouped]
    ELSE LET one == GroupOne(grouped, Head(results))
         IN IF one.raised THEN one
            ELSE GroupResults(one.grouped, Tail(results))

\* ------------------------------------------------------------------------
\* State
\* ------------------------------------------------------------------------
VARIABLES
    file,                  \* the content of OUTPUT_FILE
    runs,                  \* runs of run_sync started so far
    pc,                    \* where the current run is
    params,                \* sync_mode, test_mode, limit, force_process
    existing_data,         \* process_bookings: the loaded Snapshot
    existing_booking_map,  \* process_bookings: the index, or None
    raw_bookings,          \* process_bookings: the listing being processed
    i,                     \* process_bookings: start of the current batch
    tasks,                 \* process_booking_batch: one task per summary
    semaphore,             \* process_booking_batch: the semaphore's value
    changes,               \* process_booking_batch: the batch's counters
    total_changes,         \* process_bookings: the run's counters
    grouped,               \* process_bookings: the grouped result
    result,                \* what run_sync returned: "none", "True", "False"
    error,                 \* where the exception run_sync caught came from
    listing_resp,          \* observed: the listing call's response
    fetches,               \* observed: detail fetches issued, per summary
    responses,             \* observed: the detail response, per summary
    reused,                \* observed: the summary's task returned "existing"
    file_before,           \* observed: OUTPUT_FILE when the run started
    load_outcome,          \* observed: how load_existing_data ended
    details,               \* observed: the detail returned, per summary
    paced,                 \* observed: pacing delays started, per summary
    overtaken,             \* observed: a task returned before an earlier one
    sched,                 \* scheduled_sync: where the host loop is
    norm_in,               \* a raw detail handed to clean_booking_data
    norm_out               \* what clean_booking_data made of it

vars == << file, runs, pc, params, existing_data, existing_booking_map,
           raw_bookings, i, tasks, semaphore, changes, total_changes, grouped,
           result, error, listing_resp, fetches, responses, reused, file_before,
           load_outcome, details, paced, overtaken, sched, norm_in, norm_out >>

\* what a run of run_sync leaves alone
hostVars == << sched, norm_in, norm_out >>

runVars == << params, existing_data, existing_booking_map, file_before, runs,
             load_outcome >>

NoChanges == [new |-> 0, updated |-> 0, unchanged |-> 0]

NewTask == [pc |-> "created", detail |-> NoDetail, result |-> NoResult]

\* lines 283-285: the batch that starts at index start (0-based)
batch_size(raw) == Min(BatchCap, Len(raw))
BatchLen(raw, start) == Min(batch_size(raw), Len(raw) - start)

DefaultParams ==
    [sync_mode |-> "incremental", test_mode |-> FALSE, limit |-> 10,
     force_process |-> FALSE]

\* scheduled_sync has not been called
SchedOff == [state |-> "off", wait |-> 0, called |-> 0, last |-> "none",
             cut |-> "none"]

NoRaw == [booking_id |-> 0, status |-> PyNone, booking_url |-> NoneStr,
          invitees |-> NoInvitees]
NoOut == [done |-> FALSE, raised |-> FALSE, store_name |-> NoneStr,
          data |-> NoDetail]

InitRun ==
    /\ file = AbsentFile
    /\ runs = 0
    /\ pc = "idle"
    /\ params = DefaultParams
    /\ existing_data = EmptySnapshot
    /\ existing_booking_map = NoMap
    /\ raw_bookings = <<>>
    /\ i = 0
    /\ tasks = <<>>
    /\ semaphore = MAX_CONCURRENT_REQUESTS
    /\ changes = NoChanges
    /\ total_changes = NoChanges
    /\ grouped = EmptySnapshot
    /\ result = "none"
    /\ error = "none"
    /\ listing_resp = "none"
    /\ fetches = <<>>
    /\ responses = <<>>
    /\ reused = <<>>
    /\ file_before = AbsentFile
    /\ load_outcome = "none"
    /\ details = <<>>
    /\ paced = <<>>
    /\ overtaken = FALSE

Init ==
    /\ InitRun
    /\ sched = SchedOff
    /\ norm_in = NoRaw
    /\ norm_out = NoOut

\* ------------------------------------------------------------------------
\* run_sync (lines 367-392) and process_bookings (lines 238-319)
\* ------------------------------------------------------------------------
Propagates(cause) ==
    /\ pc' = "idle"
    /\ result' = "raised"
    /\ error' = cause

\* run_sync's except clauses: the run is over and returned False
Fails(cause) ==
    /\ pc' = "idle"
    /\ result' = "False"
    /\ error' = cause

\* run_sync is called; process_bookings runs up to the listing call
StartRun(paramSet) ==
    /\ pc = "idle"
    /\ runs < MaxRuns
    /\ \E p \in paramSet, readable \in BOOLEAN :
        /\ params' = p
        /\ load_outcome' = LoadOutcome(file, readable)
        /\ existing_data' = load_existing_data(file, readable)
        /\ existing_booking_map' =
              IF p.sync_mode = "incremental"
              THEN create_booking_map(load_existing_data(file, readable))
              ELSE NoMap
    /\ runs' = runs + 1
    /\ grouped' = [EmptySnapshot EXCEPT !.last_updated = runs + 1]
    /\ total_changes' = NoChanges
    /\ changes' = NoChanges
    /\ raw_bookings' = <<>>
    /\ i' = 0
    /\ tasks' = <<>>
    /\ semaphore' = MAX_CONCURRENT_REQUESTS
    /\ pc' = "listing"
    /\ result' = "none"
    /\ error' = "none"
    /\ listing_resp' = "none"
    /\ fetches' = <<>>
    /\ responses' = <<>>
    /\ reused' = <<>>
    /\ details' = <<>>
    /\ paced' = <<>>
    /\ overtaken' = FALSE
    /\ file_before' = file
    /\ UNCHANGED << file, hostVars >>

ResponseKind(resp) ==
    IF resp.exc THEN "transport_error"
    ELSE IF resp.status = 200 THEN "ok" ELSE "http_error"

\* the listing call returns; lines 263-292 up to the first batch's gather
FetchAllBookings(listingResponses) ==
    /\ pc = "listing"
    /\ \E resp \in listingResponses :
        LET got == fetch_all_bookings(resp)
            raw == IF params.test_mode
                   THEN SubSeq(got.value, 1, Min(params.limit, Len(got.value)))
                   ELSE got.value
        IN /\ listing_resp' = ResponseKind(resp)
           /\ IF got.raised
              THEN /\ Fails("listing")
                   /\ UNCHANGED << raw_bookings, tasks, fetches, responses, reused,
                                   details, paced >>
              ELSE /\ raw_bookings' = raw
                   /\ details' = [k \in 1..Len(raw) |-> NoDetail]
                   /\ paced' = [k \in 1..Len(raw) |-> 0]
                   /\ fetches' = [k \in 1..Len(raw) |-> 0]
                   /\ responses' = [k \in 1..Len(raw) |-> "none"]
                   /\ reused' = [k \in 1..Len(raw) |-> FALSE]
                   /\ IF batch_size(raw) = 0
                      THEN \* range() arg 3 must not be zero
                           /\ Fails("range")
                           /\ UNCHANGED tasks
                      ELSE /\ tasks' = [k \in 1..BatchLen(raw, 0) |-> NewTask]
                           /\ pc' = "batch"
                           /\ UNCHANGED << result, error >>
    /\ semaphore' = MAX_CONCURRENT_REQUESTS
    /\ changes' = NoChanges
    /\ UNCHANGED << file, runVars, hostVars, i, total_changes, grouped, overtaken >>

\* ------------------------------------------------------------------------
\* process_booking_batch.fetch_with_semaphore (lines 179-215): one task per
\* summary of the batch; task k works on raw_bookings[i + k]
\* ------------------------------------------------------------------------
Booking(k) == raw_bookings[i + k]

\* "async with semaphore" does not suspend while the semaphore is free; the
\* task then runs on into fetch_booking_detail and waits for the response
Acquire(k) ==
    /\ semaphore' = semaphore - 1
    /\ tasks' = [tasks EXCEPT ![k].pc = "fetching"]
    /\ fetches' = [fetches EXCEPT ![i + k] = @ + 1]

\* task k returns while a task created before it has not
Overtakes(k) == \E j \in 1..(k - 1) : tasks[j].pc # "done"

\* The event loop runs the created tasks in creation order, each up to its
\* first suspension (lines 181-201).
TaskStart(k) ==
    /\ pc = "batch"
    /\ k \in 1..Len(tasks)
    /\ tasks[k].pc = "created"
    /\ \A j \in 1..(k - 1) : tasks[j].pc # "created"
    /\ IF ReuseExisting(Booking(k), existing_booking_map, params.force_process)
       THEN /\ changes' = [changes EXCEPT !.unchanged = @ + 1]
            /\ tasks' = [tasks EXCEPT ![k] =
                  [pc |-> "done", detail |-> NoDetail,
                   result |-> [type |-> "existing",
                               data |-> existing_booking_map.entries[Booking(k).booking_id].data]]]
            /\ reused' = [reused EXCEPT ![i + k] = TRUE]
            /\ overtaken' = (overtaken \/ Overtakes(k))
            /\ UNCHANGED << semaphore, fetches >>
       ELSE /\ IF locked(semaphore)
               THEN /\ tasks' = [tasks EXCEPT ![k].pc = "waiting"]
                    /\ UNCHANGED << semaphore, fetches >>
               ELSE Acquire(k)
            /\ UNCHANGED << changes, reused, overtaken >>
    /\ UNCHANGED << file, runVars, hostVars, pc, raw_bookings, i, total_changes,
                    grouped, result, error, listing_resp, responses, details, paced >>

\* a task waiting at line 200 is woken, first come first served, once a slot
\* has been released
TaskAcquire(k) ==
    /\ pc = "batch"
    /\ k \in 1..Len(tasks)
    /\ tasks[k].pc = "waiting"
    /\ \A j \in 1..(k - 1) : tasks[j].pc # "waiting"
    /\ ~locked(semaphore)
    /\ Acquire(k)
    /\ UNCHANGED << file, runVars, hostVars, pc, raw_bookings, i, changes,
                    total_changes, grouped, result, error, listing_resp, responses,
                    reused, details, paced, overtaken >>

\* the responses the API may give to the detail call for a summary: a
\* transport error, a non-200 status (whose body the code never reads), or
\* 200 with the booking's record; url[id] is the booking_url the API holds
\* for a booking, statuses what it may report besides the listed status,
\* invitees what it may hold under "invitees"
DetailResponses(booking, url, statuses, invitees) ==
    { [exc |-> TRUE, status |-> 0, json |-> NoDetail] }
    \cup { [exc |-> FALSE, status |-> 500,
            json |-> [booking_id |-> booking.booking_id, status |-> "error",
                      booking_url |-> NoneStr, invitees |-> NoInvitees]] }
    \cup { [exc |-> FALSE, status |-> 200,
            json |-> [booking_id |-> booking.booking_id, status |-> st,
                      booking_url |-> url[booking.booking_id],
                      invitees |-> inv]] :
           st \in {booking.status} \cup statuses, inv \in invitees }

\* the response to task k's detail call arrives (lines 201-208); responses
\* are handled only after every task of the batch has had its first step
FetchReturn(k, url, statuses, invitees) ==
    /\ pc = "batch"
    /\ k \in 1..Len(tasks)
    /\ tasks[k].pc = "fetching"
    /\ \A j \in 1..Len(tasks) : tasks[j].pc # "created"
    /\ \E resp \in DetailResponses(Booking(k), url, statuses, invitees) :
        LET detail == fetch_booking_detail(resp)
        IN /\ responses' = [responses EXCEPT ![i + k] = ResponseKind(resp)]
           /\ details' = [details EXCEPT ![i + k] = detail]
           /\ IF detail = NoDetail
              THEN \* return None; leaving the with block releases the slot
                   /\ tasks' = [tasks EXCEPT ![k] =
                         [pc |-> "done", detail |-> NoDetail, result |-> NoResult]]
                   /\ semaphore' = semaphore + 1
                   /\ overtaken' = (overtaken \/ Overtakes(k))
                   /\ UNCHANGED paced
              ELSE \* asyncio.sleep(DELAY_BETWEEN_REQUESTS), slot still held
                   /\ tasks' = [tasks EXCEPT ![k] =
                         [pc |-> "sleeping", detail |-> detail, result |-> NoResult]]
                   /\ paced' = [paced EXCEPT ![i + k] = @ + 1]
                   /\ UNCHANGED << semaphore, overtaken >>
    /\ UNCHANGED << file, runVars, hostVars, pc, raw_bookings, i, changes,
                    total_changes, grouped, result, error, listing_resp, fetches,
                    reused >>

AlwaysNew(map, booking_id) == "new"

\* lines 210-215: the change type of a fetched booking
ChangeType(map, booking_id) ==
    IF InMap(map, booking_id) THEN "updated" ELSE "new"

\* the pacing delay of task k is over (lines 210-215)
SleepDone(k) ==
    /\ pc = "batch"
    /\ k \in 1..Len(tasks)
    /\ tasks[k].pc = "sleeping"
    /\ LET type == ChangeType(existing_booking_map, Booking(k).booking_id)
       IN /\ changes' = [changes EXCEPT ![type] = @ + 1]
          /\ tasks' = [tasks EXCEPT ![k] =
                [pc |-> "done", detail |-> NoDetail,
                 result |-> [type |-> type, data |-> tasks[k].detail]]]
    /\ semaphore' = semaphore + 1
    /\ overtaken' = (overtaken \/ Overtakes(k))
    /\ UNCHANGED << file, runVars, hostVars, pc, raw_bookings, i, total_changes,
                    grouped, result, error, listing_resp, fetches, responses,
                    reused, details, paced >>

\* ------------------------------------------------------------------------
\* gather returns: lines 223-236, then lines 294-304 and the next batch or
\* the end of process_bookings
\* ------------------------------------------------------------------------
Gather ==
    /\ pc = "batch"
    /\ \A k \in 1..Len(tasks) : tasks[k].pc = "done"
    /\ LET gathered == [k \in 1..Len(tasks) |-> tasks[k].result]
           results == BatchResults(gathered)
           g == GroupResults(grouped, results)
           next == i + batch_size(raw_bookings)
       IN IF CleanRaises(gathered)
          THEN \* line 233 raises out of process_booking_batch
               /\ Fails("clean")
               /\ UNCHANGED << total_changes, grouped, i, tasks, semaphore, changes >>
          ELSE
          /\ total_changes' =
                [key \in {"new", "updated", "unchanged"} |->
                    total_changes[key] + changes[key]]
          /\ IF g.raised
             THEN /\ Fails("grouping")
                  /\ UNCHANGED << grouped, i, tasks, semaphore, changes >>
             ELSE /\ grouped' = g.grouped
                  /\ i' = next
                  /\ UNCHANGED << result, error >>
                  /\ IF next < Len(raw_bookings)
                     THEN /\ tasks' = [k \in 1..BatchLen(raw_bookings, next) |-> NewTask]
                          /\ semaphore' = MAX_CONCURRENT_REQUESTS
                          /\ changes' = NoChanges
                          /\ UNCHANGED pc
                     ELSE /\ pc' = "save"
                          /\ UNCHANGED << tasks, semaphore, changes >>
    /\ UNCHANGED << file, runVars, hostVars, raw_bookings, listing_resp, fetches,
                    responses, reused, details, paced, overtaken >>

\* ------------------------------------------------------------------------
\* run_sync: saving the result (lines 377-384)
\* ------------------------------------------------------------------------
\* open(OUTPUT_FILE, "w") raises and leaves the file alone, or creates or
\* truncates it
SaveOpen ==
    /\ pc = "save"
    /\ \/ /\ Fails("open")
          /\ UNCHANGED file
       \/ /\ file' = TruncatedFile
          /\ pc' = "dump"
          /\ UNCHANGED << result, error >>
    /\ UNCHANGED << runVars, hostVars, raw_bookings, i, tasks, semaphore, changes,
                    total_changes, grouped, listing_resp, fetches, responses, reused,
                    details, paced, overtaken >>

\* json.dump writes the whole document, or raises part-way (the device is
\* full, an I/O error) and leaves what it had written
SaveDump ==
    /\ pc = "dump"
    /\ \/ /\ Fails("dump")
          /\ UNCHANGED file
       \/ /\ file' = ValidFile(grouped)
          /\ pc' = "idle"
          /\ result' = "True"
          /\ UNCHANGED error
    /\ UNCHANGED << runVars, hostVars, raw_bookings, i, tasks, semaphore, changes,
                    total_changes, grouped, listing_resp, fetches, responses, reused,
                    details, paced, overtaken >>

\* ------------------------------------------------------------------------
\* Inputs
\* ------------------------------------------------------------------------
Ids == 1..MaxId

\* https://section21.dayschedule.com/ab-c-dr-m-tupy-consultation
UrlStore == HOST1 \o <<"a","b","-","c">> \o SUFFIX1
\* one invitee, who answered the Name and Surname questions
OneInvitee ==
    InviteeList(<< [email |-> <<"a","@","x">>, phone |-> NoneStr,
                    questions |-> << [label |-> "Name", value |-> <<"A","n">>],
                                     [label |-> "Surname", value |-> <<"L","i">>] >>] >>)

\* https://x.io/ab
UrlOther == <<"h","t","t","p","s",":","/","/","x",".","i","o","/","a","b">>

RECURSIVE SeqsUpTo(_, _)
SeqsUpTo(S, n) ==
    IF n = 0 THEN { <<>> }
    ELSE LET shorter == SeqsUpTo(S, n - 1)
         IN shorter \cup { Append(q, x) : q \in shorter, x \in S }

ListingResponses(listings) ==
    { [exc |-> TRUE, status |-> 0, result |-> <<>>] }
    \cup { [exc |-> FALSE, status |-> 500,
            result |-> << [booking_id |-> 1, status |-> "Confirmed"] >>] }
    \cup { [exc |-> FALSE, status |-> 200, result |-> l] : l \in listings }

\* the booking_url of a booking: one on a store's page, one elsewhere, and
\* bookings without one
UrlOf ==
    [id \in Ids \cup 1..MaxGateListing |->
        CASE id = 1 -> UrlStore
          [] id = 2 -> UrlOther
          [] OTHER -> NoneStr]

\* the reconciliation specification: short listings, every kind of status
Summaries == [booking_id : Ids, status : {"Confirmed", "weird_state"}]
Listings == SeqsUpTo(Summaries, MaxListing)
ParamSets ==
    [sync_mode : {"incremental", "full"}, test_mode : {FALSE}, limit : {10},
     force_process : BOOLEAN]
    \cup [sync_mode : {"incremental"}, test_mode : {TRUE}, limit : {0, 1},
          force_process : {FALSE}]

\* (a listing of at most MaxListing summaries never fills the semaphore, so
\* no task of this specification waits at line 200)
Next ==
    \/ StartRun(ParamSets)
    \/ FetchAllBookings(ListingResponses(Listings))
    \/ \E k \in 1..MaxListing : TaskStart(k)
    \/ \E k \in 1..MaxListing :
          FetchReturn(k, UrlOf, {PyNone, "last_updated"}, {OneInvitee})
    \/ \E k \in 1..MaxListing : SleepDone(k)
    \/ Gather
    \/ SaveOpen
    \/ SaveDump

Spec == Init /\ [][Next]_vars

\* ------------------------------------------------------------------------
\* scheduled_sync (lines 394-411)
\* ------------------------------------------------------------------------
\* what the run in progress works on; a step of the host leaves it alone
workVars == << file, runVars, raw_bookings, i, tasks, semaphore, changes,
               total_changes, grouped, error, listing_resp, fetches, responses,
               reused, details, paced, overtaken, norm_in, norm_out >>

\* the host has called run_sync and the call has not returned
InRun == sched.state \in {"first", "job"}

\* the call of run_sync the host made has ended
RunOver == runs = sched.called /\ pc = "idle"

\* scheduled_sync is called and calls run_sync at once (line 400)
ScheduledSync ==
    /\ sched.state = "off"
    /\ sched' = [sched EXCEPT !.state = "first", !.called = 1]
    /\ UNCHANGED << workVars, pc, result >>

\* run_sync starts, on the arguments scheduled_sync was given
SchedStartRun(paramSet) ==
    /\ InRun
    /\ runs < sched.called
    /\ StartRun(IF runs = 0 THEN paramSet ELSE {params})

\* where the host goes on when run_sync is over: an exception that run_sync
\* let through would leave scheduled_sync, whose except clause names
\* KeyboardInterrupt only
HostAfter(ret) == IF ret = "raised" THEN "killed" ELSE "polling"

\* run_sync returns: after the first run the job is scheduled (line 403) and
\* the loop entered; after a later one run_pending schedules the job again
RunReturns ==
    /\ InRun
    /\ RunOver
    /\ sched' = [sched EXCEPT !.state = HostAfter(result), !.wait = 0,
                              !.last = result]
    /\ UNCHANGED << workVars, pc, result >>

\* run_pending finds the job not due; time.sleep(1) (lines 407-408)
Tick ==
    /\ sched.state = "polling"
    /\ sched.wait < Interval
    /\ sched' = [sched EXCEPT !.wait = @ + 1]
    /\ UNCHANGED << workVars, pc, result >>

\* run_pending finds the job due and calls run_sync (line 407)
RunPending ==
    /\ sched.state = "polling"
    /\ sched.wait = Interval
    /\ sched.called < MaxRuns
    /\ sched' = [sched EXCEPT !.state = "job", !.called = @ + 1]
    /\ UNCHANGED << workVars, pc, result >>

\* what the host was doing when KeyboardInterrupt was raised in it
CutAt ==
    IF sched.state = "polling" THEN "polling"
    ELSE IF runs < sched.called THEN "call"
    ELSE IF pc = "idle" THEN "return"
    ELSE pc

\* Ctrl+C: KeyboardInterrupt is raised in the main thread wherever it is.
\* It is no Exception, so run_sync's except clauses let it through and the
\* run in progress ends there; line 409 catches it in the loop (sys.exit),
\* and nothing catches it during the run of line 400.
Interrupt ==
    /\ sched.state \in {"first", "job", "polling"}
    /\ sched' = [sched EXCEPT
                    !.state = IF sched.state = "first" THEN "killed" ELSE "stopped",
                    !.cut = CutAt]
    /\ IF InRun /\ runs = sched.called /\ pc # "idle"
       THEN pc' = "idle" /\ result' = "aborted"
       ELSE UNCHANGED << pc, result >>
    /\ UNCHANGED workVars

\* the recurring-mode specification: short listings, details with and
\* without invitees, an interrupt at any moment
SchedListings == SeqsUpTo(Summaries, 1)
SchedParamSets ==
    [sync_mode : {"incremental", "full"}, test_mode : {FALSE}, limit : {10},
     force_process : {FALSE}]

NextSched ==
    \/ ScheduledSync
    \/ SchedStartRun(SchedParamSets)
    \/ FetchAllBookings(ListingResponses(SchedListings))
    \/ TaskStart(1)
    \/ FetchReturn(1, UrlOf, {}, {OneInvitee, InviteeList(<<>>)})
    \/ SleepDone(1)
    \/ Gather
    \/ SaveOpen
    \/ SaveDump
    \/ RunReturns
    \/ Tick
    \/ RunPending
    \/ Interrupt

SpecSched == Init /\ [][NextSched]_vars

\* the loop of lines 406-408 goes on while the process runs, and so does a
\* run that has been called; nothing obliges Ctrl+C to come
SpecSchedLive ==
    /\ SpecSched
    /\ WF_vars(Tick)
    /\ WF_vars(RunPending)

\* ------------------------------------------------------------------------
\* The normalizer specification: clean_booking_data and extract_store_name
\* applied to one raw detail
\* ------------------------------------------------------------------------
Normalize ==
    /\ ~norm_out.done
    /\ norm_out' =
          [done       |-> TRUE,
           raised     |-> IndexError(norm_in),
           store_name |-> extract_store_name(norm_in.booking_url),
           data       |-> IF IndexError(norm_in) THEN NoDetail
                          ELSE clean_booking_data(norm_in)]
    /\ UNCHANGED << file, runVars, pc, raw_bookings, i, tasks, semaphore, changes,
                    total_changes, grouped, result, error, listing_resp, fetches,
                    responses, reused, details, paced, overtaken, sched, norm_in >>

\* booking_urls: an optional redirect in front, a host, a slug, a suffix and
\* a trail; the two URLs of the docstring with a store "acme-clinic"; no URL
SlugChars == {"a", "B", "-", "1", "/"}
Slugs == SeqsUpTo(SlugChars, MaxSlug)
HOST3 == <<"h","t","t","p","s",":","/","/","x",".","i","o","/">>
Redirect == <<"h","t","t","p","s",":","/","/","r",".","i","o","/","?","u","=">>
Trails == { <<>>, <<"/","x">>, <<"?","x">> }
AcmeSlug == <<"a","c","m","e","-","c","l","i","n","i","c">>
AcmeClinic == <<"A","c","m","e"," ","C","l","i","n","i","c">>
Example1 == HOST1 \o AcmeSlug \o SUFFIX1
Example2 == HOST2 \o AcmeSlug \o SUFFIX2
Urls ==
    { front \o host \o slug \o suffix \o trail :
        front \in { <<>>, Redirect }, host \in { HOST1, HOST2, HOST3 },
        slug \in Slugs, suffix \in { SUFFIX1, SUFFIX2, <<>> }, trail \in Trails }
    \cup { Example1, Example2, NoneStr, <<>> }

\* what a detail may hold under "invitees": nothing, an empty list, an
\* invitee without answers, and invitees with answers
Answer(label, value) == [label |-> label, value |-> value]
InviteeInputs ==
    { NoInvitees,
      InviteeList(<<>>),
      InviteeList(<< EmptyInvitee >>),
      OneInvitee,
      InviteeList(<< [email |-> <<"a","@","x">>, phone |-> <<"1">>,
                      questions |-> << Answer("Name", <<" ","A">>),
                                       Answer("Your email address", <<"b","@","y">>),
                                       Answer("Name", <<"B"," ">>),
                                       Answer("Height", <<"2">>) >>],
                     EmptyInvitee >>) }

RawDetails ==
    [booking_id : {1}, status : {"Confirmed"}, booking_url : Urls,
     invitees : InviteeInputs]

InitNorm ==
    /\ InitRun
    /\ sched = SchedOff
    /\ norm_in \in RawDetails
    /\ norm_out = NoOut

NextNorm == Normalize

SpecNorm == InitNorm /\ [][NextNorm]_vars

\* the admission-gate specification: process_bookings alone, on listings long
\* enough to fill the semaphore and to overflow a batch
GateListing(n) == [k \in 1..n |-> [booking_id |-> k, status |-> "Confirmed"]]
GateListings == { GateListing(n) : n \in 1..MaxGateListing }
GateParamSets == { DefaultParams }

NextGate ==
    \/ StartRun(GateParamSets)
    \/ FetchAllBookings(ListingResponses(GateListings))
    \/ \E k \in 1..MaxGateListing : TaskStart(k)
    \/ \E k \in 1..MaxGateListing : TaskAcquire(k)
    \/ \E k \in 1..MaxGateListing : FetchReturn(k, UrlOf, {}, {OneInvitee})
    \/ \E k \in 1..MaxGateListing : SleepDone(k)
    \/ Gather

SpecGate == Init /\ [][NextGate]_vars

\* ------------------------------------------------------------------------
\* Properties
\* ------------------------------------------------------------------------
Positions == 1..Len(raw_bookings)

\* the summaries whose batch has been assembled into grouped
Assembled == 1..Min(i, Len(raw_bookings))

\* the task of summary p has returned
Finished(p) ==
    \/ p <= i
    \/ /\ p - i \in 1..Len(tasks)
       /\ tasks[p - i].pc = "done"

SnapshotRecords(data) ==
    data.confirmed \o data.pending \o data.canceled \o data.other

RecordsOf(data) ==
    LET rs == SnapshotRecords(data) IN { rs[k] : k \in 1..Len(rs) }

\* how many records of a Snapshot carry the booking id
CountOf(data, id) ==
    LET rs == SnapshotRecords(data)
    IN Cardinality({ k \in 1..Len(rs) : rs[k].booking_id = id })

FetchFailed(p) == responses[p] \in {"http_error", "transport_error"}

\* the summary yields a record: it was reused, or its detail came with 200
Produced(p) == reused[p] \/ responses[p] = "ok"

\* the prior Snapshot holds the booking of summary p with the status of the
\* listing (both lower-cased) and a store_name
SavedUnchanged(p) ==
    \E rec \in RecordsOf(existing_data) :
        /\ rec.booking_id = raw_bookings[p].booking_id
        /\ rec.status # PyNone
        /\ Lower(rec.status) = Lower(raw_bookings[p].status)
        /\ rec.store_name # KeyAbsent

\* C1: in an incremental run without force, a listed booking that the prior
\* Snapshot holds with the same lower-cased status and a store_name is not
\* fetched, is counted as reused, and its saved record goes to the output
\* unchanged -- for every status, those saved under "other" included.
ReuseCorrectness ==
    (params.sync_mode = "incremental" /\ ~params.force_process) =>
        \A p \in Positions :
            (Finished(p) /\ SavedUnchanged(p)) =>
                /\ fetches[p] = 0
                /\ reused[p]
                /\ p \in Assembled =>
                     \E rec \in RecordsOf(existing_data) \cap RecordsOf(grouped) :
                         rec.booking_id = raw_bookings[p].booking_id

\* the run never reuses: force_process, full sync mode, or an empty index
ForcedRun ==
    \/ params.force_process
    \/ params.sync_mode = "full"
    \/ (~existing_booking_map.none /\ DOMAIN existing_booking_map.entries = {})

\* C2: with force_process, in full sync mode, or with an empty prior index,
\* no summary is reused and every summary whose task has run has triggered
\* exactly one detail fetch, whatever the prior Snapshot holds; a run that
\* reaches the save has fetched every summary of the listing exactly once.
ForceOverride ==
    (runs > 0 /\ ForcedRun) =>
        /\ \A p \in Positions :
              /\ ~reused[p]
              /\ fetches[p] <= 1
              /\ Finished(p) => fetches[p] = 1
        /\ (pc \in {"save", "dump"} \/ result = "True") =>
              \A p \in Positions : fetches[p] = 1

\* a forced run has fetched a booking that an unforced run would have reused
ForceOverrideWitness ==
    /\ params.force_process
    /\ params.sync_mode = "incremental"
    /\ result = "True"
    /\ \E p \in Positions : SavedUnchanged(p) /\ fetches[p] = 1 /\ ~reused[p]

\* C3: a detail fetch that ends with a non-200 status or a transport error
\* makes its task return None; the summary yields no record and no count:
\* per booking id, the output groups hold exactly one record for each
\* assembled summary that was reused or fetched with 200, and the counters
\* add up to the number of those summaries.
FailedFetchExcluded ==
    /\ pc = "batch" =>
          /\ \A k \in 1..Len(tasks) :
                (tasks[k].pc = "done" /\ FetchFailed(i + k)) =>
                    tasks[k].result = NoResult
          /\ changes.new + changes.updated + changes.unchanged =
                Cardinality({ k \in 1..Len(tasks) :
                                tasks[k].pc = "done" /\ Produced(i + k) })
    /\ \A id \in Ids :
          CountOf(grouped, id) =
              Cardinality({ p \in Assembled :
                              raw_bookings[p].booking_id = id /\ Produced(p) })
    /\ error # "grouping" =>
          total_changes.new + total_changes.updated + total_changes.unchanged =
              Cardinality({ p \in Assembled : Produced(p) })

\* a run went on after a failed fetch and saved a Snapshot that holds the
\* other booking and not the failed one
FailedFetchWitness ==
    /\ result = "True"
    /\ \E p, q \in Positions :
          /\ FetchFailed(p)
          /\ Produced(q)
          /\ CountOf(file.data, raw_bookings[p].booking_id) = 0
          /\ CountOf(file.data, raw_bookings[q].booking_id) = 1

InFlight == Cardinality({ k \in 1..Len(tasks) : tasks[k].pc = "fetching" })

\* C4: in every state of a run, at most MAX_CONCURRENT_REQUESTS detail
\* fetches are in flight.
BoundedConcurrency == InFlight <= MAX_CONCURRENT_REQUESTS

\* the gate is full and a task is kept waiting
BoundedConcurrencyWitness ==
    /\ InFlight = MAX_CONCURRENT_REQUESTS
    /\ \E k \in 1..Len(tasks) : tasks[k].pc = "waiting"

\* C5: in every Snapshot a run writes, no booking id appears twice, in one
\* group or across groups -- for any listing, one that repeats an id included.
SnapshotIdsUnique ==
    file.state = "valid" => \A id \in Ids : CountOf(file.data, id) <= 1

\* the group a status belongs to
GroupOf(status) ==
    IF status # PyNone /\ Lower(status) \in {"confirmed", "pending", "canceled"}
    THEN Lower(status) ELSE "other"

\* C6: every record a batch produces is appended to the group of its
\* lower-cased status, "other" for any other value (a missing status and
\* "last_updated" included), and grouping never fails the run.
GroupingTotal ==
    /\ error # "grouping"
    /\ \A g \in {"confirmed", "pending", "canceled", "other"} :
          \A k \in 1..Len(grouped[g]) : GroupOf(grouped[g][k].status) = g
    /\ \A id \in Ids :
          CountOf(grouped, id) =
              Cardinality({ p \in Assembled :
                              raw_bookings[p].booking_id = id /\ Produced(p) })

ExactlyOneKey(rec) ==
    (rec.store_name # KeyAbsent) # (rec.booking_url # KeyAbsent)

\* C7: every record of the grouped result, of the loaded Snapshot and of the
\* saved Snapshot, fresh or reused, carries exactly one of store_name and
\* booking_url, over any sequence of runs that starts without a Snapshot.
MutualExclusivity ==
    /\ \A rec \in RecordsOf(grouped) : ExactlyOneKey(rec)
    /\ \A rec \in RecordsOf(existing_data) : ExactlyOneKey(rec)
    /\ \A rec \in RecordsOf(file.data) : ExactlyOneKey(rec)
    /\ \A k \in 1..Len(tasks) :
          tasks[k].result.type = "existing" => ExactlyOneKey(tasks[k].result.data)

\* a second run saved a reused record next to a fresh one that keeps its
\* booking_url
MutualExclusivityWitness ==
    /\ runs = 2
    /\ result = "True"
    /\ \E p, q \in Positions : reused[p] /\ responses[q] = "ok"
    /\ \E rec \in RecordsOf(file.data) : rec.store_name # KeyAbsent
    /\ \E rec \in RecordsOf(file.data) : rec.booking_url # KeyAbsent

\* C8: a listing without summaries (or cut to none by the test limit) ends
\* the run successfully, with four empty groups saved and a zero tally.
EmptyListingSaved ==
    (listing_resp = "ok" /\ raw_bookings = <<>> /\ pc = "idle") =>
        /\ result = "True"
        /\ file.state = "valid"
        /\ SnapshotRecords(file.data) = <<>>
        /\ total_changes = NoChanges

\* C9: when the listing call fails (non-200 or transport error), the run is
\* over with run_sync returning False, no detail fetch was issued, and
\* OUTPUT_FILE is what it was when the run started.
ListingFailureFatal ==
    listing_resp \in {"http_error", "transport_error"} =>
        /\ pc = "idle"
        /\ result = "False"
        /\ file = file_before
        /\ tasks = <<>>
        /\ \A p \in Positions : fetches[p] = 0

\* the listing failed in a run that started with a saved Snapshot
ListingFailureWitness ==
    /\ listing_resp = "http_error"
    /\ result = "False"
    /\ file.state = "valid"
    /\ SnapshotRecords(file.data) # <<>>

\* C10: when opening or writing OUTPUT_FILE fails in a run that started with
\* a saved Snapshot, run_sync returns False and the file still holds that
\* Snapshot, complete.
SaveFailureKeepsSnapshot ==
    (error \in {"open", "dump"} /\ file_before.state = "valid") =>
        /\ result = "False"
        /\ file = file_before

\* the counters of the run so far, the open batch included
Counted(key) ==
    IF pc = "batch" THEN total_changes[key] + changes[key] ELSE total_changes[key]

\* C11: load_existing_data ends without raising, and when the file is absent,
\* cannot be read or does not decode, the run goes on with the empty
\* Snapshot; in incremental mode it then reuses nothing, fetches every
\* summary whose task has run exactly once, and counts every booking fetched
\* with 200 as "new" and none as "updated" or "unchanged".
CorruptSnapshotRecovery ==
    /\ runs > 0 => load_outcome \in {"absent", "read_error", "decode_error", "loaded"}
    /\ (runs > 0 /\ load_outcome # "loaded") =>
          /\ existing_data = EmptySnapshot
          /\ params.sync_mode = "incremental" =>
                /\ \A p \in Positions :
                      /\ ~reused[p]
                      /\ Finished(p) => fetches[p] = 1
                /\ \A k \in 1..Len(tasks) : tasks[k].result.type \in {"none", "new"}
                /\ Counted("updated") = 0
                /\ Counted("unchanged") = 0
                /\ error # "clean" =>
                      Counted("new") =
                        Cardinality({ p \in Positions :
                                        Finished(p) /\ responses[p] = "ok" })

\* an incremental run that found a truncated document, and one that could
\* not read a Snapshot holding the listed booking, saved it as new
CorruptSnapshotWitness ==
    /\ params.sync_mode = "incremental"
    /\ ~params.force_process
    /\ result = "True"
    /\ total_changes.new > 0
    /\ \/ load_outcome = "decode_error"
       \/ /\ load_outcome = "read_error"
          /\ \E p \in Positions :
                /\ responses[p] = "ok"
                /\ CountOf(file_before.data, raw_bookings[p].booking_id) > 0

\* the records that the detail responses of summaries 1..n put into group g,
\* in listing order
RECURSIVE FreshGroup(_, _)
FreshGroup(g, n) ==
    IF n = 0 THEN <<>>
    ELSE IF responses[n] = "ok" /\ GroupOf(details[n].status) = g
         THEN Append(FreshGroup(g, n - 1), clean_booking_data(details[n]))
         ELSE FreshGroup(g, n - 1)

\* the run started without a Snapshot to reuse
NoPriorSnapshot == runs > 0 /\ SnapshotRecords(existing_data) = <<>>

\* C12: in a run started with no prior Snapshot, the four groups are a
\* function of the listing and of the detail response each summary got --
\* the records of the 200 responses, in listing order -- whatever the order
\* in which the fetches completed; two such runs on the same listing and the
\* same responses therefore end with the same groups and differ only in
\* last_updated.
Idempotence ==
    NoPriorSnapshot =>
        \A g \in {"confirmed", "pending", "canceled", "other"} :
            grouped[g] = FreshGroup(g, Min(i, Len(raw_bookings)))

\* such a run saved two records of one group although the later summary's
\* task returned first
IdempotenceWitness ==
    /\ NoPriorSnapshot
    /\ result = "True"
    /\ overtaken
    /\ \E g \in {"confirmed", "other"} :
          /\ Len(file.data[g]) = 2
          /\ file.data[g][1] # file.data[g][2]

\* the saved record that the task of summary p returned as "existing"
SavedAt(p) == existing_booking_map.entries[raw_bookings[p].booking_id].data

\* the status of the record summary p yields: the saved one's, or the
\* detail's
StatusAt(p) == IF reused[p] THEN SavedAt(p).status ELSE details[p].status

\* the assembled summaries whose record belongs to group g
InGroup(g) ==
    { p \in Assembled : Produced(p) /\ GroupOf(StatusAt(p)) = g }

\* C15: whatever the order in which the tasks return, each group of the
\* result holds the records of its summaries in the order of the listing,
\* reused and freshly fetched ones interleaved: the k-th record of a group
\* is the record of the k-th of its summaries.
OutputOrder ==
    \A g \in {"confirmed", "pending", "canceled", "other"} :
        LET mine == InGroup(g)
        IN /\ Len(grouped[g]) = Cardinality(mine)
           /\ \A p \in mine :
                 LET rec == grouped[g][Cardinality({ q \in mine : q <= p })]
                 IN /\ rec.booking_id = raw_bookings[p].booking_id
                    /\ rec.status = StatusAt(p)
                    /\ reused[p] => rec = SavedAt(p)

\* a reused record is saved before a fetched one of the same group whose
\* summary follows it, in a batch whose tasks returned out of order
OutputOrderWitness ==
    /\ result = "True"
    /\ overtaken
    /\ \E g \in {"confirmed", "other"} :
          /\ Len(file.data[g]) = 2
          /\ file.data[g][1].booking_id # file.data[g][2].booking_id
          /\ \E p, q \in InGroup(g) : p < q /\ responses[p] = "ok" /\ reused[q]

\* the patient of a record that has no invitee data
EmptyPatient ==
    [full_name |-> <<>>, email |-> NoneStr, phone |-> NoneStr,
     date_of_birth |-> NoneStr, gender |-> NoneStr, height |-> NoneStr,
     weight |-> NoneStr]

\* C13: for a raw detail whose invitees list is absent or empty,
\* clean_booking_data does not raise and returns a record whose patient has
\* an empty full_name and None in every other field.
NormalizerTotal ==
    (norm_out.done /\ (~norm_in.invitees.present \/ norm_in.invitees.list = <<>>)) =>
        /\ ~norm_out.raised
        /\ norm_out.data.patient = EmptyPatient

\* out is slug with hyphens turned into spaces and every word (a run of
\* letters) written with an upper-case first letter and lower-case others
WordsTitled(slug, out) ==
    /\ Len(out) = Len(slug)
    /\ \A k \in 1..Len(slug) :
          IF slug[k] = "-" THEN out[k] = " "
          ELSE IF ~IsCased(slug[k]) THEN out[k] = slug[k]
          ELSE IF k > 1 /\ IsCased(slug[k - 1])
               THEN out[k] = LowerChar(slug[k])
               ELSE out[k] = UpperChar(slug[k])

\* a store slug: not empty, no slash
StoreSlugs == { slug \in Slugs \cup {AcmeSlug} :
                  slug # <<>> /\ \A k \in 1..Len(slug) : slug[k] # "/" }

\* the store page URLs: the slug before the suffix of its host
IsStoreUrl(u, slug) ==
    \E trail \in Trails :
        \/ u = HOST1 \o slug \o SUFFIX1 \o trail
        \/ u = HOST2 \o slug \o SUFFIX2 \o trail

\* for the store page URLs extract_store_name returns the titled slug and
\* the record carries it as store_name, without booking_url
StoreNameOfSlug ==
    /\ \A slug \in StoreSlugs :
          IsStoreUrl(norm_in.booking_url, slug) =>
              /\ WordsTitled(slug, norm_out.store_name)
              /\ ~norm_out.raised =>
                    /\ norm_out.data.store_name = norm_out.store_name
                    /\ norm_out.data.booking_url = KeyAbsent
    /\ norm_in.booking_url \in {Example1, Example2} =>
          norm_out.store_name = AcmeClinic

\* extract_store_name returns nothing and the record keeps the booking_url
NoStoreName ==
    /\ norm_out.store_name = NoneStr
    /\ ~norm_out.raised =>
          /\ norm_out.data.store_name = KeyAbsent
          /\ norm_out.data.booking_url = norm_in.booking_url

\* the URL is on the host: it starts with the host's prefix
OnHost(u, host) == HasAt(u, host, 1)

\* the host's prefix occurs somewhere in the URL
Mentions(u, host) == \E b \in 1..Len(u) : HasAt(u, host, b)

\* C14 as stated: the titled slug for the store page URLs of the two hosts,
\* and nothing, with booking_url kept, for every booking_url on neither host.
StoreNameByHost ==
    norm_out.done =>
        /\ StoreNameOfSlug
        /\ (~OnHost(norm_in.booking_url, HOST1) /\ ~OnHost(norm_in.booking_url, HOST2))
              => NoStoreName

\* C14, amended: the titled slug for the store page URLs of the two hosts,
\* and nothing, with booking_url kept, for every booking_url in which
\* neither host prefix occurs.
StoreNameExtraction ==
    norm_out.done =>
        /\ StoreNameOfSlug
        /\ (~Mentions(norm_in.booking_url, HOST1) /\ ~Mentions(norm_in.booking_url, HOST2))
              => NoStoreName

\* the second docstring URL gave "Acme Clinic" and the record has no
\* booking_url
StoreNameWitness ==
    /\ norm_out.done
    /\ norm_in.booking_url = Example2
    /\ ~norm_out.raised
    /\ norm_out.data.store_name = AcmeClinic
    /\ norm_out.data.booking_url = KeyAbsent

\* C16: a task that fetched has gone through exactly one pacing delay by the
\* time it returns and frees its slot, whether the fetch succeeded or
\* failed; a task that reused its summary has gone through none.
PacingPerFetch ==
    \A p \in Positions :
        /\ reused[p] => (fetches[p] = 0 /\ paced[p] = 0)
        /\ (Finished(p) /\ fetches[p] > 0) => paced[p] = 1

\* the booking is in the index handed to the batches: the run is incremental
\* and the loaded Snapshot holds the id
Indexed(id) == params.sync_mode = "incremental" /\ CountOf(existing_data, id) > 0

\* the summaries fetched with 200 whose task has returned
Fetched == { p \in Positions : Finished(p) /\ responses[p] = "ok" }

\* C17: every booking fetched with 200 is counted once, as "updated" when
\* its id is in the index handed to the batch and as "new" otherwise (always
\* "new" in full mode), every reused summary once as "unchanged", and when
\* a run has saved, the three counters add up to the number of records in
\* the four groups.
ChangeClassification ==
    /\ \A k \in 1..Len(tasks) :
          tasks[k].result.type \in {"new", "updated"} =>
              (tasks[k].result.type = "updated" <=> Indexed(tasks[k].result.data.booking_id))
    /\ error # "clean" =>
          /\ Counted("updated") =
                Cardinality({ p \in Fetched : Indexed(raw_bookings[p].booking_id) })
          /\ Counted("new") =
                Cardinality({ p \in Fetched : ~Indexed(raw_bookings[p].booking_id) })
          /\ Counted("unchanged") =
                Cardinality({ p \in Positions : reused[p] })
    /\ result = "True" =>
          total_changes.new + total_changes.updated + total_changes.unchanged =
              Len(SnapshotRecords(file.data))

\* an incremental run saved a booking it counted as updated next to one it
\* counted as new, and a full run over a saved Snapshot counted all as new
ChangeClassificationWitness ==
    /\ result = "True"
    /\ runs = 2
    /\ Len(SnapshotRecords(file.data)) = 2
    /\ \/ total_changes.updated = 1 /\ total_changes.new = 1
       \/ /\ params.sync_mode = "full"
          /\ total_changes.new = 2
          /\ \A p \in Positions : CountOf(existing_data, raw_bookings[p].booking_id) > 0

\* an incremental run has saved over the Snapshot it started with
SavedOverPrior ==
    /\ result = "True"
    /\ params.sync_mode = "incremental"
    /\ file_before.state = "valid"

\* the ids that the prior Snapshot holds and the listing still lists
StillListed ==
    { id \in Ids : /\ CountOf(file_before.data, id) > 0
                   /\ \E p \in Positions : raw_bookings[p].booking_id = id }

\* C20 as stated: when an incremental run has saved, every booking of the
\* prior Snapshot that the listing still lists is in the new Snapshot, a
\* booking whose status changed and whose detail fetch failed included.
NoLossAcrossRuns ==
    SavedOverPrior => \A id \in StillListed : CountOf(file.data, id) > 0

\* C20, amended: when an incremental run has saved, a booking of the prior
\* Snapshot that the listing still lists is in the new Snapshot exactly when
\* one of its summaries was reused or fetched with 200; it is missing when
\* every detail fetch for it failed in that run.
NoLossUnlessFetchFailed ==
    SavedOverPrior =>
        \A id \in StillListed :
            CountOf(file.data, id) > 0 <=>
                \E p \in Positions : raw_bookings[p].booking_id = id /\ Produced(p)

\* a run saved a prior booking it reused next to a prior booking whose
\* status had changed and whose detail it fetched again
NoLossWitness ==
    /\ SavedOverPrior
    /\ \E p, q \in Positions :
          /\ raw_bookings[p].booking_id \in StillListed
          /\ raw_bookings[q].booking_id \in StillListed
          /\ reused[p]
          /\ responses[q] = "ok"
          /\ \E rec \in RecordsOf(file_before.data) :
                /\ rec.booking_id = raw_bookings[q].booking_id
                /\ Lower(rec.status) # Lower(raw_bookings[q].status)
          /\ CountOf(file.data, raw_bookings[p].booking_id) = 1
          /\ CountOf(file.data, raw_bookings[q].booking_id) = 1

\* the host loop is over
HostEnded == sched.state \in {"killed", "stopped"}

\* a run has failed and the host is back in its loop, with runs to come
WaitingAfterFailure ==
    /\ sched.state = "polling"
    /\ sched.last = "False"
    /\ sched.called < MaxRuns

\* C18: in recurring mode a run that fails (listing, processing or saving)
\* ends with run_sync returning False to the host; the host loop ends only
\* on an interrupt, never because a run failed; and after a failed run the
\* next scheduled run is started, once the interval has passed, unless the
\* user interrupts first.
HostLoopSurvives ==
    /\ [](HostEnded => sched.cut # "none")
    /\ []((InRun /\ RunOver) => result \in {"True", "False"})
    /\ [](sched.state = "job" => sched.wait = Interval)
    /\ (WaitingAfterFailure ~> (sched.state = "job" \/ HostEnded))

\* the second run has started, at its interval, after the first one failed
\* while saving
HostLoopWitness ==
    /\ sched.state = "job"
    /\ sched.last = "False"
    /\ sched.wait = Interval
    /\ runs = 2
    /\ pc = "listing"
    /\ file.state = "truncated"

\* C19: in recurring mode an interrupt takes effect only while the host
\* is between runs (polling, or about to enter or just back from run_sync):
\* it never ends a run that has been started (the first one included), and
\* never leaves OUTPUT_FILE half-written.
InterruptBetweenRuns ==
    sched.cut # "none" =>
        /\ sched.cut \in {"polling", "call", "return"}
        /\ result # "aborted"
        /\ file.state = "truncated" => error = "dump"

====
